---- MODULE Spec2Model ----
(***************************************************************************)
(* Model of the CTS inventory / citation validation code of                *)
(* cts/xml/texts.py and cts/xml/inventory.py.                              *)
(*                                                                         *)
(* Strings are sequences of one-character strings, so that str.replace,    *)
(* str.split, "/".join and the shortcut_namespace regular expression act   *)
(* on characters as they do in the code.  A dict is a sequence of          *)
(* <<key, value>> pairs with distinct keys, in the dict's iteration order  *)
(* (insertion order).  A Python call either returns a value or raises:     *)
(* [raised |-> FALSE, value |-> v] or [raised |-> TRUE, exc |-> name].     *)
(***************************************************************************)
EXTENDS Integers, Sequences, FiniteSets, TLC

VARIABLES made, ret

vars == <<made, ret>>

(***************************************************************************)
(* Bounds of the model.                                                    *)
(***************************************************************************)
\* deepest citation chain built by the constructions of Init
MaxDepth == 2
\* most title / label elements of a Work or Text
MaxTitles == 2
\* most <textgroup> elements of an inventory
MaxGroups == 2

(***************************************************************************)
(* Python values.                                                          *)
(***************************************************************************)
\* Python's None where a string is expected: no string holds a 4-character element
None == <<"None">>

Return(v) == [raised |-> FALSE, value |-> v]

Raise(e) == [raised |-> TRUE, exc |-> e]

RECURSIVE Flatten(_)
\* concatenation of a sequence of sequences
Flatten(ss) == IF ss = <<>> THEN <<>> ELSE Head(ss) \o Flatten(Tail(ss))

\* the characters matched by [a-zA-Z0-9]
AlNum ==
    {"a","b","c","d","e","f","g","h","i","j","k","l","m","n","o","p","q","r","s",
     "t","u","v","w","x","y","z","A","B","C","D","E","F","G","H","I","J","K","L",
     "M","N","O","P","Q","R","S","T","U","V","W","X","Y","Z","0","1","2","3","4",
     "5","6","7","8","9"}

(***************************************************************************)
(* str operations used by the code.                                        *)
(***************************************************************************)
\* k occurs in h at position i
IsAt(h, k, i) == i + Len(k) - 1 <= Len(h) /\ SubSeq(h, i, i + Len(k) - 1) = k

\* Python's `k in h`
Contains(h, k) == \E i \in 1..(Len(h) - Len(k) + 1) : IsAt(h, k, i)

RECURSIVE ReplaceFrom(_, _, _, _)
\* h[i:].replace(k, v) for a non-empty k: leftmost, non-overlapping occurrences
ReplaceFrom(h, k, v, i) ==
    IF i > Len(h) THEN <<>>
    ELSE IF IsAt(h, k, i) THEN v \o ReplaceFrom(h, k, v, i + Len(k))
    ELSE <<h[i]>> \o ReplaceFrom(h, k, v, i + 1)

\* h.replace(k, v); an empty k matches before every character and at the end
str_replace(h, k, v) ==
    IF k = <<>>
    THEN Flatten([i \in 1..Len(h) |-> v \o <<h[i]>>]) \o v
    ELSE ReplaceFrom(h, k, v, 1)

RECURSIVE str_split(_, _)
\* s.split(c) for a one-character separator c
str_split(s, c) ==
    IF \A i \in 1..Len(s) : s[i] # c THEN <<s>>
    ELSE LET i == CHOOSE i \in 1..Len(s) : s[i] = c /\ \A j \in 1..(i - 1) : s[j] # c
         IN  <<SubSeq(s, 1, i - 1)>> \o str_split(SubSeq(s, i + 1, Len(s)), c)

RECURSIVE str_join(_, _)
\* c.join(parts) for a one-character separator c
str_join(c, parts) ==
    IF parts = <<>> THEN <<>>
    ELSE IF Len(parts) = 1 THEN parts[1]
    ELSE parts[1] \o <<c>> \o str_join(c, Tail(parts))

\* os.path.basename(p): what follows the last "/"
basename(p) ==
    LET parts == str_split(p, "/") IN parts[Len(parts)]

(***************************************************************************)
(* dict operations: a dict is a sequence of <<key, value>> pairs.          *)
(***************************************************************************)
DictKeys(d) == [i \in 1..Len(d) |-> d[i][1]]

DictHas(d, k) == \E i \in 1..Len(d) : d[i][1] = k

\* d[k], for a key of d
DictGet(d, k) == d[CHOOSE i \in 1..Len(d) : d[i][1] = k][2]

\* d[k] = v: a known key keeps its place, a new key goes last
DictSet(d, k, v) ==
    IF DictHas(d, k)
    THEN [i \in 1..Len(d) |-> IF d[i][1] = k THEN <<k, v>> ELSE d[i]]
    ELSE Append(d, <<k, v>>)

\* replace_all stopping after the first needle
replace_all_broken(haystack, needles) ==
    IF needles = <<>> THEN haystack
    ELSE str_replace(haystack, needles[1][1], needles[1][2])

RECURSIVE replace_all_reversed(_, _)
\* replace_all taking the needles last to first
replace_all_reversed(haystack, needles) ==
    IF needles = <<>> THEN haystack
    ELSE replace_all_reversed(
             str_replace(haystack, needles[Len(needles)][1], needles[Len(needles)][2]),
             SubSeq(needles, 1, Len(needles) - 1))

RECURSIVE replace_all(_, _)
\* texts.py replace_all: every needle in turn, in the dict's iteration order,
\* each on the result of the one before
replace_all(haystack, needles) ==
    IF needles = <<>> THEN haystack
    ELSE replace_all(str_replace(haystack, needles[1][1], needles[1][2]), Tail(needles))

(***************************************************************************)
(* A parsed XML document: an element is [tag, attrs, kids], its tag in     *)
(* "{uri}local" form.  ElementTree's findall on the path expressions the   *)
(* code builds: "." , child steps, "//" descendant steps, "*" and the      *)
(* "[@attr]" predicate.                                                    *)
(***************************************************************************)
Elem(tag, attrs, kids) == [tag |-> tag, attrs |-> attrs, kids |-> kids]

RECURSIVE Iter(_)
\* elem.iter(): the element, then its descendants, in document order
Iter(e) == <<e>> \o Flatten([i \in 1..Len(e.kids) |-> Iter(e.kids[i])])

RECURSIVE NextSlash(_, _)
\* the first index at or after i that holds "/", Len(p) + 1 if none does
NextSlash(p, i) == IF i > Len(p) \/ p[i] = "/" THEN i ELSE NextSlash(p, i + 1)

\* where the step starting at i ends: a leading "{uri}" is one token, "/" included
StepEnd(p, i) ==
    IF i <= Len(p) /\ p[i] = "{" /\ \E j \in (i + 2)..Len(p) : p[j] = "}"
    THEN NextSlash(p, (CHOOSE j \in (i + 1)..Len(p) :
                          p[j] = "}" /\ \A m \in (i + 1)..(j - 1) : p[m] # "}") + 1)
    ELSE NextSlash(p, i)

RECURSIVE StepsFrom(_, _)
\* the steps of p from index i on, cut at each "/" that ends a step
StepsFrom(p, i) ==
    LET e == StepEnd(p, i)
    IN  IF e > Len(p) THEN <<SubSeq(p, i, Len(p))>>
        ELSE <<SubSeq(p, i, e - 1)>> \o StepsFrom(p, e + 1)

\* ElementPath.iterfind: a path ending in "/" has "*" appended
PathSteps(p) ==
    StepsFrom(IF p # <<>> /\ p[Len(p)] = "/" THEN p \o <<"*">> ELSE p, 1)

\* the tag of a step: what comes before its predicate
StepTag(s) ==
    IF \E i \in 1..Len(s) : s[i] = "["
    THEN SubSeq(s, 1, (CHOOSE i \in 1..Len(s) : s[i] = "[" /\ \A j \in 1..(i - 1) : s[j] # "[") - 1)
    ELSE s

\* the attribute of a step's "[@attr]" predicate, None without a predicate
StepAttr(s) ==
    IF Len(s) > Len(StepTag(s)) + 3 /\ s[Len(StepTag(s)) + 2] = "@" /\ s[Len(s)] = "]"
    THEN SubSeq(s, Len(StepTag(s)) + 3, Len(s) - 1)
    ELSE None

\* xpath_tokenizer without a prefix map: a tag with a prefix cannot be resolved
UnboundTag(s) == StepTag(s) # <<>> /\ StepTag(s)[1] # "{" /\ Contains(StepTag(s), <<":">>)

\* the paths ElementPath refuses with SyntaxError
PathSyntaxError(p) ==
    LET steps == PathSteps(p)
    IN  \/ \E i \in 1..Len(steps) : UnboundTag(steps[i])
        \/ \E i \in 1..Len(steps) :
              /\ steps[i] = <<>>
              /\ (i = Len(steps) \/ steps[i + 1] = <<>> \/ steps[i + 1] = <<".">>)

\* the elements of cands that step s selects
Matching(cands, s) ==
    LET Ok(e) == /\ (StepTag(s) = <<"*">> \/ e.tag = StepTag(s))
                 /\ (StepAttr(s) = None \/ StepAttr(s) \in e.attrs)
    IN  SelectSeq(cands, Ok)

RECURSIVE Select(_, _, _)
\* the elements selected from the context ctx by steps[i], steps[i+1], ...
Select(ctx, steps, i) ==
    IF i > Len(steps) THEN ctx
    ELSE IF steps[i] = <<".">> THEN Select(ctx, steps, i + 1)
    ELSE IF steps[i] = <<>>
    THEN Select(Matching(Flatten([k \in 1..Len(ctx) |-> Tail(Iter(ctx[k]))]), steps[i + 1]),
                steps, i + 2)
    ELSE Select(Matching(Flatten([k \in 1..Len(ctx) |-> ctx[k].kids]), steps[i]),
                steps, i + 1)

\* ElementTree.findall(path) on the document with this root element
findall(root, p) ==
    IF PathSyntaxError(p) THEN Raise("SyntaxError")
    ELSE Return(Select(<<root>>, PathSteps(p), 1))

(***************************************************************************)
(* The files of the world: ElementTree.parse(target) returns the parsed    *)
(* document of a file that exists and is well-formed, and raises for any   *)
(* other target.                                                           *)
(***************************************************************************)
\* "{http://u}"
sUri == <<"{","h","t","t","p",":","/","/","u","}">>

Tg(local) == sUri \o local

\* <T><b><d n=".."><l n=".."/><l/></d><d/></b></T> in namespace http://u
DocA ==
    Elem(Tg(<<"T">>), {}, <<
        Elem(Tg(<<"b">>), {}, <<
            Elem(Tg(<<"d">>), {<<"n">>}, <<
                Elem(Tg(<<"l">>), {<<"n">>}, <<>>),
                Elem(Tg(<<"l">>), {}, <<>>) >>),
            Elem(Tg(<<"d">>), {}, <<>>) >>) >>)

\* <T><b><d><l n=".."/></d></b></T> in namespace http://u: no d carries @n
DocB ==
    Elem(Tg(<<"T">>), {}, <<
        Elem(Tg(<<"b">>), {}, <<
            Elem(Tg(<<"d">>), {}, << Elem(Tg(<<"l">>), {<<"n">>}, <<>>) >>) >>) >>)

\* <X><b><d n=".."/></b></X> in namespace http://u: another root element
DocC ==
    Elem(Tg(<<"X">>), {}, <<
        Elem(Tg(<<"b">>), {}, << Elem(Tg(<<"d">>), {<<"n">>}, <<>>) >>) >>)

\* "/d/a"
pathA == <<"/","d","/","a">>

\* "/d/b"
pathB == <<"/","d","/","b">>

\* "/d/c"
pathC == <<"/","d","/","c">>

\* "/d/n": no such file
pathN == <<"/","d","/","n">>

Files == { <<pathA, DocA>>, <<pathB, DocB>>, <<pathC, DocC>> }

ElementTree_parse(target) ==
    IF \E f \in Files : f[1] = target
    THEN Return((CHOOSE f \in Files : f[1] = target)[2])
    ELSE Raise("ParseError")

\* Python's truth value of a target: None and "" are false
Truthy(target) == target # None /\ target # <<>>

(***************************************************************************)
(* texts.py: Citation.                                                     *)
(***************************************************************************)
\* a diagnostic of cts.shell.Error: its message, and what the message is formatted with
Error(msg, name, arg, level) == [msg |-> msg, name |-> name, arg |-> arg, level |-> level]

RECURSIVE Citation(_, _, _)
\* Citation.__init__ and _retrieveChildren: xml is a <citation> element,
\* [label, xpath, scope, citation], citation its <citation> child if any
Citation(xml, namespaces, strict) ==
    [kind |-> "Citation",
     label |-> xml.label, xpath |-> xml.xpath, scope |-> xml.scope,
     namespaces |-> namespaces, strict |-> strict,
     children |-> IF xml.citation # <<>>
                  THEN <<Citation(xml.citation[1], namespaces, strict)>>
                  ELSE <<>>]

\* "@n='?'"
sAttrQuery == <<"@","n","=","'","?","'">>

\* Citation.full_xpath(removeRoot, string)
full_xpath(self, removeRoot, string) ==
    LET x0 == IF string # None THEN string ELSE self.scope \o self.xpath
        x1 == str_replace(x0, sAttrQuery, <<"@","n">>)
        parts == str_split(x1, "/")
        x2 == IF removeRoot
              THEN str_join("/", <<<<".">>>> \o SubSeq(parts, 3, Len(parts)))
              ELSE x1
    IN  replace_all(x2, self.namespaces)

\* len(shortcut_namespace.findall(string)): one match per ":" that follows a
\* character of [a-zA-Z0-9]
shortcut_namespace_count(string) ==
    Cardinality({i \in 2..Len(string) : string[i] = ":" /\ string[i - 1] \in AlNum})

\* Citation._testNamespace(name, string, original_string, level, failure_condition)
_testNamespace(name, string, original_string, level, failure_condition) ==
    LET match == shortcut_namespace_count(string)
    IN  IF failure_condition = "equal" /\ match = 0
        THEN <<Error("has no namespaces shortcuts", name, original_string, level)>>
        ELSE IF failure_condition = "greater" /\ match > 0
        THEN <<Error("has namespaces shortcuts with no bindings", name, original_string, level)>>
        ELSE <<>>

\* Citation.testNamespace(level)
testNamespace(self, level) ==
    _testNamespace("scope", self.scope, self.scope, level, "equal")
    \o _testNamespace("scope", full_xpath(self, FALSE, self.scope), self.scope, level, "greater")
    \o _testNamespace("xpath", self.xpath, self.xpath, level, "equal")
    \o _testNamespace("xpath", full_xpath(self, FALSE, self.xpath), self.xpath, level, "greater")

RECURSIVE test_stops_at_failure(_, _, _)
\* Citation.test giving up on the child levels of a level that found nothing
test_stops_at_failure(self, target, level) ==
    LET parsed == ElementTree_parse(target)
    IN  IF Truthy(target) /\ parsed.raised
        THEN IF self.strict = FALSE
             THEN Return(<< <<FALSE>>,
                            <<Error("Impossible to parse given element", "", <<>>, 0)>> >>)
             ELSE Raise("ValueError")
        ELSE IF Truthy(target)
        THEN LET xpath == full_xpath(self, TRUE, None)
                 res == findall(parsed.value, xpath)
                 found == IF res.raised THEN <<>> ELSE res.value
             IN  IF Len(found) = 0
                 THEN Return(<< <<FALSE>>, testNamespace(self, level) >>)
                 ELSE IF self.children # <<>>
                 THEN LET c == test_stops_at_failure(self.children[1], target, level + 1)
                      IN  IF c.raised THEN c
                          ELSE Return(<< <<TRUE>> \o c.value[1], c.value[2] >>)
                 ELSE Return(<< <<TRUE>>, <<>> >>)
        ELSE Return(<< <<FALSE>>, <<>> >>)

RECURSIVE test_no_except(_, _, _)
\* Citation.test without the try / except around findall
test_no_except(self, target, level) ==
    LET parsed == ElementTree_parse(target)
    IN  IF Truthy(target) /\ parsed.raised
        THEN IF self.strict = FALSE
             THEN Return(<< <<FALSE>>,
                            <<Error("Impossible to parse given element", "", <<>>, 0)>> >>)
             ELSE Raise("ValueError")
        ELSE IF Truthy(target)
        THEN LET xpath == full_xpath(self, TRUE, None)
                 res == findall(parsed.value, xpath)
                 found == IF res.raised THEN <<>> ELSE res.value
                 st == IF Len(found) > 0 THEN <<TRUE>> ELSE <<FALSE>>
                 ws == IF Len(found) > 0 THEN <<>> ELSE testNamespace(self, level)
             IN  IF res.raised THEN res
                 ELSE IF self.children # <<>>
                 THEN LET c == test_no_except(self.children[1], target, level + 1)
                      IN  IF c.raised THEN c
                          ELSE Return(<<st \o c.value[1], ws \o c.value[2]>>)
                 ELSE Return(<<st, ws>>)
        ELSE Return(<< <<FALSE>>, <<>> >>)

RECURSIVE test_strict_inverted(_, _, _)
\* Citation.test with the strict flag read the wrong way round on a parse failure
test_strict_inverted(self, target, level) ==
    LET parsed == ElementTree_parse(target)
    IN  IF Truthy(target) /\ parsed.raised
        THEN IF self.strict = TRUE
             THEN Return(<< <<FALSE>>,
                            <<Error("Impossible to parse given element", "", <<>>, 0)>> >>)
             ELSE Raise("ValueError")
        ELSE IF Truthy(target)
        THEN LET xpath == full_xpath(self, TRUE, None)
                 res == findall(parsed.value, xpath)
                 found == IF res.raised THEN <<>> ELSE res.value
                 w0 == IF res.raised
                       THEN <<Error("Unable to run xpath", "", xpath, 0)>>
                       ELSE <<>>
                 st == IF Len(found) > 0 THEN <<TRUE>> ELSE <<FALSE>>
                 ws == IF Len(found) > 0 THEN w0 ELSE testNamespace(self, level)
             IN  IF self.children # <<>>
                 THEN LET c == test_strict_inverted(self.children[1], target, level + 1)
                      IN  IF c.raised THEN c
                          ELSE Return(<<st \o c.value[1], ws \o c.value[2]>>)
                 ELSE Return(<<st, ws>>)
        ELSE Return(<< <<FALSE>>, <<>> >>)

RECURSIVE test_always_diagnoses(_, _, _)
\* Citation.test running the namespace diagnostic on every level, matched or not
test_always_diagnoses(self, target, level) ==
    LET parsed == ElementTree_parse(target)
    IN  IF Truthy(target) /\ parsed.raised
        THEN IF self.strict = FALSE
             THEN Return(<< <<FALSE>>,
                            <<Error("Impossible to parse given element", "", <<>>, 0)>> >>)
             ELSE Raise("ValueError")
        ELSE IF Truthy(target)
        THEN LET xpath == full_xpath(self, TRUE, None)
                 res == findall(parsed.value, xpath)
                 found == IF res.raised THEN <<>> ELSE res.value
                 st == IF Len(found) > 0 THEN <<TRUE>> ELSE <<FALSE>>
                 ws == testNamespace(self, level)
             IN  IF self.children # <<>>
                 THEN LET c == test_always_diagnoses(self.children[1], target, level + 1)
                      IN  IF c.raised THEN c
                          ELSE Return(<<st \o c.value[1], ws \o c.value[2]>>)
                 ELSE Return(<<st, ws>>)
        ELSE Return(<< <<FALSE>>, <<>> >>)

RECURSIVE test_keeps_accumulated(_, _, _)
\* Citation.test appending the namespace diagnostic to the warnings of the level
\* instead of replacing them
test_keeps_accumulated(self, target, level) ==
    LET parsed == ElementTree_parse(target)
    IN  IF Truthy(target) /\ parsed.raised
        THEN IF self.strict = FALSE
             THEN Return(<< <<FALSE>>,
                            <<Error("Impossible to parse given element", "", <<>>, 0)>> >>)
             ELSE Raise("ValueError")
        ELSE IF Truthy(target)
        THEN LET xpath == full_xpath(self, TRUE, None)
                 res == findall(parsed.value, xpath)
                 found == IF res.raised THEN <<>> ELSE res.value
                 w0 == IF res.raised
                       THEN <<Error("Unable to run xpath", "", xpath, 0)>>
                       ELSE <<>>
                 st == IF Len(found) > 0 THEN <<TRUE>> ELSE <<FALSE>>
                 ws == IF Len(found) > 0 THEN w0 ELSE w0 \o testNamespace(self, level)
             IN  IF self.children # <<>>
                 THEN LET c == test_keeps_accumulated(self.children[1], target, level + 1)
                      IN  IF c.raised THEN c
                          ELSE Return(<<st \o c.value[1], ws \o c.value[2]>>)
                 ELSE Return(<<st, ws>>)
        ELSE Return(<< <<FALSE>>, <<>> >>)

RECURSIVE test_child_failure_propagates(_, _, _)
\* Citation.test recording false for a level whose child chain has a failed level
test_child_failure_propagates(self, target, level) ==
    LET parsed == ElementTree_parse(target)
    IN  IF Truthy(target) /\ parsed.raised
        THEN IF self.strict = FALSE
             THEN Return(<< <<FALSE>>,
                            <<Error("Impossible to parse given element", "", <<>>, 0)>> >>)
             ELSE Raise("ValueError")
        ELSE IF Truthy(target)
        THEN LET xpath == full_xpath(self, TRUE, None)
                 res == findall(parsed.value, xpath)
                 found == IF res.raised THEN <<>> ELSE res.value
                 w0 == IF res.raised
                       THEN <<Error("Unable to run xpath", "", xpath, 0)>>
                       ELSE <<>>
                 st == IF Len(found) > 0 THEN <<TRUE>> ELSE <<FALSE>>
                 ws == IF Len(found) > 0 THEN w0 ELSE testNamespace(self, level)
             IN  IF self.children # <<>>
                 THEN LET c == test_child_failure_propagates(self.children[1], target, level + 1)
                      IN  IF c.raised THEN c
                          ELSE IF \E i \in 1..Len(c.value[1]) : ~c.value[1][i]
                          THEN Return(<< <<FALSE>> \o c.value[1], ws \o c.value[2]>>)
                          ELSE Return(<<st \o c.value[1], ws \o c.value[2]>>)
                 ELSE Return(<<st, ws>>)
        ELSE Return(<< <<FALSE>>, <<>> >>)

RECURSIVE test(_, _, _)
\* Citation.test(target, level): Return(<<status, warnings>>) or Raise
test(self, target, level) ==
    LET parsed == ElementTree_parse(target)
    IN  IF Truthy(target) /\ parsed.raised
        THEN IF self.strict = FALSE
             THEN Return(<< <<FALSE>>,
                            <<Error("Impossible to parse given element", "", <<>>, 0)>> >>)
             ELSE Raise("ValueError")
        ELSE IF Truthy(target)
        THEN LET xpath == full_xpath(self, TRUE, None)
                 res == findall(parsed.value, xpath)
                 found == IF res.raised THEN <<>> ELSE res.value
                 w0 == IF res.raised
                       THEN <<Error("Unable to run xpath", "", xpath, 0)>>
                       ELSE <<>>
                 st == IF Len(found) > 0 THEN <<TRUE>> ELSE <<FALSE>>
                 ws == IF Len(found) > 0 THEN w0 ELSE testNamespace(self, level)
             IN  IF self.children # <<>>
                 THEN LET c == test(self.children[1], target, level + 1)
                      IN  IF c.raised THEN c
                          ELSE Return(<<st \o c.value[1], ws \o c.value[2]>>)
                 ELSE Return(<<st, ws>>)
        ELSE Return(<< <<FALSE>>, <<>> >>)

(***************************************************************************)
(* texts.py: Document, Text (Edition, Translation).                        *)
(***************************************************************************)
RECURSIVE FoldNamespace(_, _)
\* the loop of Document._retrieveNamespace over the <namespaceMapping> elements
FoldNamespace(mappings, namespaces) ==
    IF mappings = <<>> THEN namespaces
    ELSE FoldNamespace(Tail(mappings),
                       DictSet(namespaces,
                               Head(mappings).abbreviation \o <<":">>,
                               <<"{">> \o Head(mappings).nsURI \o <<"}">>))

\* Document._retrieveNamespace
_retrieveNamespace(xml) == FoldNamespace(xml.namespaceMapping, <<>>)

\* Document._getFilePath
_getFilePath(db, rewriting_rules) == replace_all(db, rewriting_rules)

\* Document.__init__: xml is an <online> element, [docname, namespaceMapping, citation]
Document(xml, rewriting_rules, strict) ==
    Return([kind |-> "Document",
            rewriting_rules |-> rewriting_rules, strict |-> strict,
            db |-> xml.docname,
            path |-> _getFilePath(xml.docname, rewriting_rules),
            filename |-> basename(_getFilePath(xml.docname, rewriting_rules)),
            namespaces |-> _retrieveNamespace(xml),
            citation |-> Citation(xml.citation, _retrieveNamespace(xml), strict)])

\* Document.testCitation(): it takes no argument, so a call that passes
\* keyword arguments is a TypeError
Document_testCitation(self, kwargs) ==
    IF kwargs # {} THEN Raise("TypeError")
    ELSE test(self.citation, self.path, 1)

RECURSIVE FoldTitles(_, _)
\* the loop of _retrieveTitles over the <title> (<label>) elements
FoldTitles(elems, titles) ==
    IF elems = <<>> THEN titles
    ELSE FoldTitles(Tail(elems), DictSet(titles, Head(elems).lang, Head(elems).text))

\* Text.__init__ and Text._retrieveTitles: xml is an <edition> or <translation>
\* element, [tag, labels, online].  NoTitleException is no name of texts.py, so
\* raising it is a NameError.  The Document is built without the strict argument.
Text(xml, rewriting_rules, strict) ==
    LET titles == FoldTitles(xml.labels, <<>>)
        document == Document(xml.online, rewriting_rules, FALSE)
    IN  IF strict = TRUE /\ Len(titles) = 0 THEN Raise("NameError")
        ELSE IF document.raised THEN document
        ELSE Return([kind |-> xml.tag,
                     rewriting_rules |-> rewriting_rules, strict |-> strict,
                     titles |-> titles, document |-> document.value])

\* Text.getTitle(lang)
Text_getTitle(self, lang) ==
    IF Len(self.titles) = 0 THEN Raise("NameError")
    ELSE LET defaulttitle == DictKeys(self.titles)[1]
         IN  Return(IF DictHas(self.titles, lang) THEN DictGet(self.titles, lang)
                    ELSE DictGet(self.titles, defaulttitle))

(***************************************************************************)
(* inventory.py: Work, TextGroup, Inventory.                               *)
(***************************************************************************)
\* the first construction of rs that raised, if any
Raised(rs) == {i \in 1..Len(rs) : rs[i].raised}

FirstRaised(rs) == rs[CHOOSE i \in Raised(rs) : \A j \in Raised(rs) : i <= j]

Values(rs) == [i \in 1..Len(rs) |-> rs[i].value]

\* "en"
sEn == <<"e","n">>

\* "eng"
sEng == <<"e","n","g">>

\* Work.__init__, _retrieveTitles, _retrieveEditions and _retrieveTranslations:
\* xml is a <work> element, [titles, editions, translations].  Editions and
\* translations are built with strict=False.
Work(xml, rewriting_rules, strict) ==
    LET titles == FoldTitles(xml.titles, <<>>)
        editions == [i \in 1..Len(xml.editions) |->
                        Text(xml.editions[i], rewriting_rules, FALSE)]
        translations == [i \in 1..Len(xml.translations) |->
                            Text(xml.translations[i], rewriting_rules, FALSE)]
    IN  IF strict = TRUE /\ Len(titles) = 0 THEN Raise("NoTitleException")
        ELSE IF Raised(editions \o translations) # {}
        THEN FirstRaised(editions \o translations)
        ELSE Return([kind |-> "Work",
                     strict |-> strict, rewriting_rules |-> rewriting_rules,
                     titles |-> titles,
                     editions |-> Values(editions),
                     translations |-> Values(translations)])

\* Work.getTexts()
Work_getTexts(self) == self.editions \o self.translations

\* Work.getTitle without the preference for "en" and "eng"
Work_getTitle_first_key(self, lang) ==
    IF Len(self.titles) = 0 THEN Raise("NoTitleException")
    ELSE Return(IF DictHas(self.titles, lang) THEN DictGet(self.titles, lang)
                ELSE DictGet(self.titles, DictKeys(self.titles)[1]))

\* Work.getTitle(lang)
Work_getTitle(self, lang) ==
    IF Len(self.titles) = 0 THEN Raise("NoTitleException")
    ELSE LET defaulttitle ==
                 IF DictHas(self.titles, sEn) THEN sEn
                 ELSE IF DictHas(self.titles, sEng) THEN sEng
                 ELSE DictKeys(self.titles)[1]
         IN  Return(IF DictHas(self.titles, lang) THEN DictGet(self.titles, lang)
                    ELSE DictGet(self.titles, defaulttitle))

\* TextGroup.__init__ and _retrieveWorks: xml is a <textgroup> element, [works].
\* The Works are built without the strict argument.
TextGroup(xml, rewriting_rules, strict) ==
    LET works == [i \in 1..Len(xml.works) |-> Work(xml.works[i], rewriting_rules, FALSE)]
    IN  IF Raised(works) # {} THEN FirstRaised(works)
        ELSE Return([kind |-> "TextGroup",
                     strict |-> strict, rewriting_rules |-> rewriting_rules,
                     works |-> Values(works)])

\* Inventory.__init__ and _retrieveTextGroup: xml is the element tree of the
\* inventory source (the source itself is a path or an XML string, the two
\* forms os.path.exists accepts), [textgroups].  The TextGroups are built
\* without the strict argument.
Inventory(xml, rewriting_rules, strict) ==
    LET textGroups == [i \in 1..Len(xml.textgroups) |->
                          TextGroup(xml.textgroups[i], rewriting_rules, FALSE)]
    IN  IF Raised(textGroups) # {} THEN FirstRaised(textGroups)
        ELSE Return([kind |-> "Inventory",
                     strict |-> strict, rewriting_rules |-> rewriting_rules,
                     textGroups |-> Values(textGroups)])

\* Inventory.getTexts(instanceOf)
Inventory_getTexts(self, instanceOf) ==
    Flatten([g \in 1..Len(self.textGroups) |->
        Flatten([w \in 1..Len(self.textGroups[g].works) |->
            (IF "Edition" \in instanceOf
             THEN self.textGroups[g].works[w].editions ELSE <<>>)
            \o (IF "Translation" \in instanceOf
                THEN self.textGroups[g].works[w].translations ELSE <<>>)])])

RECURSIVE TestDocs(_, _, _)
\* the loop of Inventory.testTextsCitation over docs, results collected so far
TestDocs(docs, results, kwargs) ==
    IF docs = <<>> THEN Return(results)
    ELSE LET r == Document_testCitation(Head(docs).document, kwargs)
         IN  IF r.raised THEN r
             ELSE TestDocs(Tail(docs),
                           Append(results, <<Head(docs).document.filename, r.value>>),
                           kwargs)

\* Inventory.testTextsCitation(ignore_replication): every Document's
\* testCitation is called with the keyword argument ignore_replication
Inventory_testTextsCitation(self, ignore_replication) ==
    TestDocs(Inventory_getTexts(self, {"Edition", "Translation"}), <<>>,
             {"ignore_replication"})

(***************************************************************************)
(* The inputs of the model: strings, <citation> chains, namespace tables,  *)
(* rewriting rules and inventory elements.                                 *)
(***************************************************************************)
\* "/t:T/t:b"
sScopeB == <<"/","t",":","T","/","t",":","b">>

\* "/t:d[@n='?']"
sXpathD == <<"/","t",":","d","[","@","n","=","'","?","'","]">>

\* "/t:T/t:b/t:d[@n='?']"
sScopeD == <<"/","t",":","T","/","t",":","b","/","t",":","d","[","@","n","=","'","?","'","]">>

\* "/t:l[@n='?']"
sXpathL == <<"/","t",":","l","[","@","n","=","'","?","'","]">>

\* "/q:x[@n='?']"
sXpathQ == <<"/","q",":","x","[","@","n","=","'","?","'","]">>

\* "/T/b"
sScopePlain == <<"/","T","/","b">>

\* "/d[@n='?']"
sXpathPlain == <<"/","d","[","@","n","=","'","?","'","]">>

\* "/t:z[@n='?']"
sXpathZ == <<"/","t",":","z","[","@","n","=","'","?","'","]">>

\* "/xt:T/t:b"
sOverride == <<"/","x","t",":","T","/","t",":","b">>

\* "urn:a"
sUrnA == <<"u","r","n",":","a">>

\* "urn:c"
sUrnC == <<"u","r","n",":","c">>

\* "urn:n"
sUrnN == <<"u","r","n",":","n">>

\* "urn:"
sUrn == <<"u","r","n",":">>

\* "/d/"
sDirD == <<"/","d","/">>

\* "x:"
sX == <<"x",":">>

\* "urn:cts:greekLit:"
sGreekRule == <<"u","r","n",":","c","t","s",":","g","r","e","e","k","L","i","t",":">>

\* "/data/greek/"
sGreekDir == <<"/","d","a","t","a","/","g","r","e","e","k","/">>

\* "urn:cts:greekLit:tlg0012.tlg001"
sGreekDb == <<"u","r","n",":","c","t","s",":","g","r","e","e","k","L","i","t",":","t","l","g","0","0","1","2",".","t","l","g","0","0","1">>

\* "/data/greek/tlg0012.tlg001"
sGreekPath == <<"/","d","a","t","a","/","g","r","e","e","k","/","t","l","g","0","0","1","2",".","t","l","g","0","0","1">>

\* "http://u"
sHttpU == <<"h","t","t","p",":","/","/","u">>

\* the (scope, xpath) pairs of the <citation> elements
Levels ==
    { [label |-> "book", scope |-> sScopeB, xpath |-> sXpathD],
      [label |-> "line", scope |-> sScopeD, xpath |-> sXpathL],
      [label |-> "unbound", scope |-> sScopeB, xpath |-> sXpathQ],
      [label |-> "plain", scope |-> sScopePlain, xpath |-> sXpathPlain],
      [label |-> "nomatch", scope |-> sScopeB, xpath |-> sXpathZ] }

CitationXml(l, child) ==
    [label |-> l.label, scope |-> l.scope, xpath |-> l.xpath, citation |-> child]

\* the levels nested in another one
InnerLevels == {l \in Levels : l.label \in {"book", "line", "unbound"}}

RECURSIVE ChainsOf(_, _)
\* the <citation> elements nested at most n deep, the outermost one of ls
ChainsOf(ls, n) ==
    IF n = 0 THEN {}
    ELSE {CitationXml(l, <<>>) : l \in ls}
         \cup {CitationXml(l, <<c>>) : l \in ls, c \in ChainsOf(InnerLevels, n - 1)}

Chains(n) == ChainsOf(Levels, n)

\* book, and book > line
ChainBook == CitationXml([label |-> "book", scope |-> sScopeB, xpath |-> sXpathD], <<>>)

ChainBookLine ==
    CitationXml([label |-> "book", scope |-> sScopeB, xpath |-> sXpathD],
                <<CitationXml([label |-> "line", scope |-> sScopeD, xpath |-> sXpathL], <<>>)>>)

\* namespace tables given to Citation(...) directly
NamespaceTables ==
    { <<>>,
      << <<<<"t",":">>, sUri>> >>,
      << <<<<"t",":">>, <<"{","u","}">>>>, <<<<"q",":">>, <<"{","v","}">>>> >>,
      << <<<<"q",":">>, <<"{","v","}">>>>, <<<<"t",":">>, <<"{","u","}">>>> >>,
      << <<<<"t",":">>, sUri>>, <<<<"h","t","t","p",":">>, <<"{","u","}">>>> >>,
      << <<<<"t",":">>, <<"{","u","}">>>>, <<<<"x","t",":">>, <<"{","v","}">>>> >> }

\* the targets given to Citation.test
Targets == {None, <<>>, pathA, pathB, pathC, pathN}

\* rewriting rules
RewritingRules ==
    { <<>>,
      << <<sUrn, sDirD>> >>,
      << <<sUrn, sX>>, <<sX, sDirD>> >>,
      << <<sX, sDirD>>, <<sUrn, sX>> >>,
      << <<sGreekRule, sGreekDir>> >> }

NsMapping(a, u) == [abbreviation |-> a, nsURI |-> u]

NamespaceMappings ==
    { <<>>,
      <<NsMapping(<<"t">>, sHttpU)>>,
      <<NsMapping(<<"t">>, <<"u">>), NsMapping(<<"q">>, <<"v">>), NsMapping(<<"t">>, sHttpU)>> }

Online(docname, mappings, citation) ==
    [docname |-> docname, namespaceMapping |-> mappings, citation |-> citation]

OnlineXmls ==
    { Online(d, m, c) : d \in {sUrnA, sUrnN, pathB, sGreekDb},
                        m \in NamespaceMappings,
                        c \in {ChainBook, ChainBookLine} }

\* the languages of xml:lang; None when the attribute is missing
Langs == {sEn, sEng, <<"f","r">>, <<"d","e">>, None}

\* the text of the i-th title element
TitleTexts == <<"A", "B", "C", "D">>

\* the sequences of at most n title elements, the i-th with text TitleTexts[i]
TitleSeqs(n) ==
    UNION { { [i \in 1..m |-> [lang |-> ls[i], text |-> <<TitleTexts[i]>>]] :
                ls \in [1..m -> Langs] } : m \in 0..n }

TextXml(tag, labels, online) == [tag |-> tag, labels |-> labels, online |-> online]

EdA ==
    TextXml("Edition", <<[lang |-> sEn, text |-> <<"A">>]>>,
            Online(sUrnA, <<NsMapping(<<"t">>, sHttpU)>>, ChainBookLine))

EdB ==
    TextXml("Edition", <<>>,
            Online(pathB, <<NsMapping(<<"t">>, sHttpU)>>, ChainBook))

TrC ==
    TextXml("Translation", <<[lang |-> <<"f","r">>, text |-> <<"A">>]>>,
            Online(sUrnC, <<>>, ChainBook))

TrN ==
    TextXml("Translation", <<[lang |-> sEn, text |-> <<"A">>]>>,
            Online(sUrnN, <<NsMapping(<<"t">>, sHttpU)>>, ChainBookLine))

WorkXml(titles, editions, translations) ==
    [titles |-> titles, editions |-> editions, translations |-> translations]

\* the <work> elements given to Work(...) directly
WorkXmls ==
    { WorkXml(t, c[1], c[2]) : t \in TitleSeqs(MaxTitles),
                               c \in { <<<<>>, <<>>>>, <<<<EdA>>, <<TrC>>>> } }

\* the <textgroup> elements of the inventories
TextGroupXmls ==
    { [works |-> <<>>],
      [works |-> <<WorkXml(<<[lang |-> sEn, text |-> <<"A">>]>>, <<EdA>>, <<>>)>>],
      [works |-> <<WorkXml(<<>>, <<>>, <<>>),
                   WorkXml(<<[lang |-> sEn, text |-> <<"A">>],
                             [lang |-> <<"f","r">>, text |-> <<"B">>]>>, <<EdA>>, <<TrC>>)>>],
      [works |-> <<WorkXml(<<[lang |-> <<"f","r">>, text |-> <<"A">>]>>,
                           <<EdB, EdA>>, <<TrN>>)>>] }

\* the inventory elements with at most n <textgroup> children
InventoryXmls(n) ==
    UNION { { [textgroups |-> gs] : gs \in [1..m -> TextGroupXmls] } : m \in 0..n }

\* the <edition> and <translation> elements given to Edition(...), Translation(...)
TextXmls ==
    { TextXml(tag, t, Online(sUrnA, <<NsMapping(<<"t">>, sHttpU)>>, ChainBook)) :
        tag \in {"Edition", "Translation"}, t \in TitleSeqs(MaxTitles) }

\* the languages asked of getTitle; None when the argument is left out
AskedLangs == Langs \cup {<<"x","x">>}

(***************************************************************************)
(* The state: made is the construction that was run (the class, its        *)
(* arguments, and the object it returned or the exception it raised), ret  *)
(* is the last method call on that object and its outcome.                 *)
(***************************************************************************)
Made(cls, xml, table, strict, result) ==
    [cls |-> cls, xml |-> xml, table |-> table, strict |-> strict, result |-> result]

Called(op, args, result) == [op |-> op, args |-> args, result |-> result]

\* the constructed object
self == made.result.value

Is(classes) == made.cls \in classes /\ ~made.result.raised

\* a construction of the inventory tree: a Document, an Edition or Translation,
\* a Work, a TextGroup or an Inventory
Init ==
    /\ ret = Called("none", <<>>, Return(<<>>))
    /\ \E strict \in BOOLEAN :
          \/ \E xml \in OnlineXmls, rules \in RewritingRules :
                made = Made("Document", xml, rules, strict, Document(xml, rules, strict))
          \/ \E xml \in TextXmls :
                made = Made(xml.tag, xml, <<>>, strict, Text(xml, <<>>, strict))
          \/ \E xml \in WorkXmls :
                made = Made("Work", xml, <<>>, strict, Work(xml, <<>>, strict))
          \/ \E xml \in TextGroupXmls, rules \in {<<>>, << <<sUrn, sDirD>> >>} :
                made = Made("TextGroup", xml, rules, strict, TextGroup(xml, rules, strict))
          \/ \E xml \in InventoryXmls(MaxGroups), rules \in {<<>>, << <<sUrn, sDirD>> >>} :
                made = Made("Inventory", xml, rules, strict, Inventory(xml, rules, strict))

\* a construction of a Citation chain
InitCitation ==
    /\ ret = Called("none", <<>>, Return(<<>>))
    /\ \E strict \in BOOLEAN, xml \in Chains(MaxDepth), ns \in NamespaceTables :
          made = Made("Citation", xml, ns, strict, Return(Citation(xml, ns, strict)))

\* Citation.test(target)
CitationTest ==
    /\ Is({"Citation"})
    /\ \E target \in Targets :
          ret' = Called("test", [target |-> target], test(self, target, 1))
    /\ UNCHANGED made

\* Citation.testNamespace(level)
CitationTestNamespace ==
    /\ Is({"Citation"})
    /\ \E level \in 1..MaxDepth :
          ret' = Called("testNamespace", [level |-> level], Return(testNamespace(self, level)))
    /\ UNCHANGED made

\* Citation.full_xpath(removeRoot, string)
CitationFullXpath ==
    /\ Is({"Citation"})
    /\ \E removeRoot \in BOOLEAN, string \in {None, sOverride} :
          ret' = Called("full_xpath", [removeRoot |-> removeRoot, string |-> string],
                        Return(full_xpath(self, removeRoot, string)))
    /\ UNCHANGED made

\* Document.testCitation()
DocumentTestCitation ==
    /\ Is({"Document"})
    /\ ret' = Called("testCitation", <<>>, Document_testCitation(self, {}))
    /\ UNCHANGED made

\* Text.getTitle(lang) of an Edition or a Translation
TextGetTitle ==
    /\ Is({"Edition", "Translation"})
    /\ \E lang \in AskedLangs :
          ret' = Called("getTitle", [lang |-> lang], Text_getTitle(self, lang))
    /\ UNCHANGED made

\* Work.getTitle(lang)
WorkGetTitle ==
    /\ Is({"Work"})
    /\ \E lang \in AskedLangs :
          ret' = Called("getTitle", [lang |-> lang], Work_getTitle(self, lang))
    /\ UNCHANGED made

\* Work.getTexts()
WorkGetTexts ==
    /\ Is({"Work"})
    /\ ret' = Called("getTexts", <<>>, Return(Work_getTexts(self)))
    /\ UNCHANGED made

\* Inventory.getTexts(instanceOf)
InventoryGetTexts ==
    /\ Is({"Inventory"})
    /\ \E instanceOf \in SUBSET {"Edition", "Translation"} :
          ret' = Called("getTexts", [instanceOf |-> instanceOf],
                        Return(Inventory_getTexts(self, instanceOf)))
    /\ UNCHANGED made

\* Inventory.testTextsCitation(ignore_replication)
InventoryTestTextsCitation ==
    /\ Is({"Inventory"})
    /\ \E ignore_replication \in BOOLEAN :
          ret' = Called("testTextsCitation", [ignore_replication |-> ignore_replication],
                        Inventory_testTextsCitation(self, ignore_replication))
    /\ UNCHANGED made

NextCitation ==
    \/ CitationTest
    \/ CitationTestNamespace
    \/ CitationFullXpath

SpecCitation == InitCitation /\ [][NextCitation]_vars

Next ==
    \/ DocumentTestCitation
    \/ TextGetTitle
    \/ WorkGetTitle
    \/ WorkGetTexts
    \/ InventoryGetTexts
    \/ InventoryTestTextsCitation

Spec == Init /\ [][Next]_vars

(***************************************************************************)
(* Helpers of the properties.                                              *)
(***************************************************************************)
RECURSIVE Depth(_)
\* the number of levels of a Citation chain
Depth(c) == IF c.children = <<>> THEN 1 ELSE 1 + Depth(c.children[1])

RECURSIVE NthLevel(_, _)
\* the i-th Citation of a chain, the outermost being the first
NthLevel(c, i) == IF i = 1 THEN c ELSE NthLevel(c.children[1], i - 1)

\* the target of the last call parses
Parsed(target) == Truthy(target) /\ ~ElementTree_parse(target).raised

\* the target of the last call is given and does not parse
Unparseable(target) == Truthy(target) /\ ElementTree_parse(target).raised

\* the path expression of level c finds at least one element of the target's document
LevelMatches(c, target) ==
    LET res == findall(ElementTree_parse(target).value, full_xpath(c, TRUE, None))
    IN  ~res.raised /\ Len(res.value) > 0

\* the path expression of level c cannot be evaluated
LevelUnevaluable(c, target) ==
    findall(ElementTree_parse(target).value, full_xpath(c, TRUE, None)).raised

\* the last call was Citation.test
TestCalled == made.cls = "Citation" /\ ret.op = "test"

status == ret.result.value[1]

warnings == ret.result.value[2]

(***************************************************************************)
(* C1: Inventory.testTextsCitation(ignore_replication) completes without   *)
(* raising and returns one (filename, (status, warnings)) pair per Text of *)
(* getTexts(), in TextGroup order, then Work order, then editions before   *)
(* translations, the pair holding the result of Citation.test of the       *)
(* Document's root Citation on the Document's resolved path.               *)
(***************************************************************************)
TextsInOrder(inv) ==
    Flatten([g \in 1..Len(inv.textGroups) |->
        Flatten([w \in 1..Len(inv.textGroups[g].works) |->
            inv.textGroups[g].works[w].editions
            \o inv.textGroups[g].works[w].translations])])

C1_TestTextsCitation ==
    (made.cls = "Inventory" /\ ret.op = "testTextsCitation") =>
        /\ ~ret.result.raised
        /\ ret.result.value =
              [i \in 1..Len(TextsInOrder(self)) |->
                  <<TextsInOrder(self)[i].document.filename,
                    test(TextsInOrder(self)[i].document.citation,
                         TextsInOrder(self)[i].document.path, 1).value>>]

(***************************************************************************)
(* C2: for a Citation chain of depth n and a target that parses,           *)
(* Citation.test returns a status list of length n whose i-th entry is the *)
(* match result of the i-th level, counted from the outermost one.         *)
(***************************************************************************)
C2_StatusPerLevel ==
    (TestCalled /\ Parsed(ret.args.target)) =>
        /\ ~ret.result.raised
        /\ Len(status) = Depth(self)
        /\ \A i \in 1..Depth(self) :
              status[i] = LevelMatches(NthLevel(self, i), ret.args.target)

\* a chain of two levels whose first level matches and whose second does not
C2_Witness ==
    /\ TestCalled /\ Parsed(ret.args.target)
    /\ Depth(self) = 2
    /\ status = <<TRUE, FALSE>>

(***************************************************************************)
(* C3 as stated: Citation.test never raises, for any Citation (strict or   *)
(* lenient), any target and any path expression.                           *)
(***************************************************************************)
C3_NeverRaises == TestCalled => ~ret.result.raised

(***************************************************************************)
(* C3 amended: Citation.test raises exactly when the Citation is strict    *)
(* and the target is given and cannot be parsed, and then it raises        *)
(* ValueError; in every other case it returns, an absent or unparseable    *)
(* target as status [false], and a level whose path expression cannot be   *)
(* evaluated as a false entry of the status.                               *)
(***************************************************************************)
C3_RaisesOnlyStrictUnparseable ==
    TestCalled =>
        /\ ret.result.raised <=> (self.strict /\ Unparseable(ret.args.target))
        /\ ret.result.raised => ret.result.exc = "ValueError"
        /\ (~ret.result.raised /\ ~Parsed(ret.args.target)) => status = <<FALSE>>
        /\ (~ret.result.raised /\ Parsed(ret.args.target)) =>
              \A i \in 1..Depth(self) :
                  LevelUnevaluable(NthLevel(self, i), ret.args.target)
                      => (i <= Len(status) /\ status[i] = FALSE)

\* a strict Citation with a level that cannot be evaluated returned a result
C3_Witness ==
    /\ TestCalled /\ self.strict /\ Parsed(ret.args.target)
    /\ ~ret.result.raised
    /\ \E i \in 1..Depth(self) : LevelUnevaluable(NthLevel(self, i), ret.args.target)

(***************************************************************************)
(* C4: when the target cannot be parsed, a lenient Citation returns status *)
(* [false] and exactly one parse-error diagnostic, whatever the depth of   *)
(* its chain, and a strict Citation raises instead of returning.           *)
(***************************************************************************)
C4_ParseFailure ==
    (TestCalled /\ Unparseable(ret.args.target)) =>
        IF self.strict
        THEN ret.result.raised
        ELSE /\ ~ret.result.raised
             /\ status = <<FALSE>>
             /\ Len(warnings) = 1
             /\ warnings[1].msg = "Impossible to parse given element"

\* a lenient chain of two levels tested on a file that does not parse
C4_Witness ==
    /\ TestCalled /\ Unparseable(ret.args.target)
    /\ ~self.strict /\ Depth(self) = 2
    /\ ~ret.result.raised /\ Len(status) = 1

(***************************************************************************)
(* C5: the strict flag given to the constructor of an Inventory,           *)
(* TextGroup, Work or Text is the strict flag of every TextGroup, Work,    *)
(* Edition, Translation, Document and Citation built under it; so a strict *)
(* Inventory holding a Work without titles fails to construct.             *)
(***************************************************************************)
RECURSIVE CitationFlags(_)
\* the strict flags of a Citation chain
CitationFlags(c) ==
    {c.strict} \cup (IF c.children = <<>> THEN {} ELSE CitationFlags(c.children[1]))

\* the strict flags of a Text, its Document and its Citations
TextFlags(t) == {t.strict, t.document.strict} \cup CitationFlags(t.document.citation)

WorkFlags(w) ==
    {w.strict} \cup UNION {TextFlags(Work_getTexts(w)[i]) : i \in 1..Len(Work_getTexts(w))}

TextGroupFlags(g) == {g.strict} \cup UNION {WorkFlags(g.works[i]) : i \in 1..Len(g.works)}

InventoryFlags(v) ==
    {v.strict} \cup UNION {TextGroupFlags(v.textGroups[i]) : i \in 1..Len(v.textGroups)}

\* the strict flags found in the subtree of the constructed object
SubtreeFlags ==
    IF made.cls = "Inventory" THEN InventoryFlags(self)
    ELSE IF made.cls = "TextGroup" THEN TextGroupFlags(self)
    ELSE IF made.cls = "Work" THEN WorkFlags(self)
    ELSE IF made.cls \in {"Edition", "Translation"} THEN TextFlags(self)
    ELSE {self.strict}

\* some <work> of the inventory element has no <title>
HasUntitledWork(xml) ==
    \E g \in 1..Len(xml.textgroups) : \E w \in 1..Len(xml.textgroups[g].works) :
        xml.textgroups[g].works[w].titles = <<>>

C5_StrictUniform ==
    /\ (made.cls \in {"Inventory", "TextGroup", "Work", "Edition", "Translation"}
            /\ ~made.result.raised)
          => SubtreeFlags = {made.strict}
    /\ (made.cls = "Inventory" /\ made.strict /\ HasUntitledWork(made.xml))
          => made.result = Raise("NoTitleException")

(***************************************************************************)
(* C6 as stated: for a Work with at least one title, getTitle(lang)        *)
(* returns the title stored for lang when lang is a language of the Work,  *)
(* and otherwise (lang unknown, or no lang given) the default title: the   *)
(* "en" title if present, else the "eng" title, else the first title       *)
(* element in document order.                                              *)
(***************************************************************************)
\* the <title> elements of the Work that carry this xml:lang
TitlesIn(lang) == {i \in 1..Len(made.xml.titles) : made.xml.titles[i].lang = lang}

\* the title stored for a language: that of its last <title> element
StoredTitle(lang) ==
    made.xml.titles[CHOOSE i \in TitlesIn(lang) : \A j \in TitlesIn(lang) : j <= i].text

WorkGetTitleCalled ==
    made.cls = "Work" /\ ~made.result.raised /\ ret.op = "getTitle" /\ made.xml.titles # <<>>

C6_GetTitleAsStated ==
    WorkGetTitleCalled =>
        ret.result =
            Return(IF ret.args.lang # None /\ TitlesIn(ret.args.lang) # {}
                   THEN StoredTitle(ret.args.lang)
                   ELSE IF TitlesIn(sEn) # {} THEN StoredTitle(sEn)
                   ELSE IF TitlesIn(sEng) # {} THEN StoredTitle(sEng)
                   ELSE made.xml.titles[1].text)

(***************************************************************************)
(* C6 amended: getTitle(lang) returns the title stored for lang when some  *)
(* title element carries that lang (a call without lang looks up the      *)
(* title elements that have no xml:lang), and otherwise the default title: *)
(* the stored "en" title if present, else the stored "eng" title, else the *)
(* title stored for the language of the first title element; the title     *)
(* stored for a language is that of its last title element.                *)
(***************************************************************************)
C6_GetTitle ==
    WorkGetTitleCalled =>
        ret.result =
            Return(IF TitlesIn(ret.args.lang) # {} THEN StoredTitle(ret.args.lang)
                   ELSE IF TitlesIn(sEn) # {} THEN StoredTitle(sEn)
                   ELSE IF TitlesIn(sEng) # {} THEN StoredTitle(sEng)
                   ELSE StoredTitle(made.xml.titles[1].lang))

\* titles en: A then fr: B, and getTitle("de") fell back to the "en" title A
C6_Witness ==
    /\ WorkGetTitleCalled
    /\ Len(made.xml.titles) = 2
    /\ made.xml.titles[1].lang = sEn /\ made.xml.titles[2].lang = <<"f","r">>
    /\ ret.args.lang = <<"d","e">>
    /\ ret.result = Return(<<"A">>)

(***************************************************************************)
(* C7: constructing a Work without title children raises NoTitleException  *)
(* when strict; when lenient the construction succeeds and every later     *)
(* getTitle(lang), for any lang or none, raises NoTitleException; the same *)
(* holds of Text.getTitle on an empty title mapping.                       *)
(***************************************************************************)
C7_NoTitle ==
    /\ (made.cls = "Work" /\ made.xml.titles = <<>>) =>
          IF made.strict THEN made.result = Raise("NoTitleException")
          ELSE /\ ~made.result.raised
               /\ ret.op = "getTitle" => ret.result = Raise("NoTitleException")
    /\ (made.cls \in {"Edition", "Translation"} /\ ~made.result.raised
            /\ self.titles = <<>> /\ ret.op = "getTitle")
          => ret.result = Raise("NoTitleException")

(***************************************************************************)
(* C8: a Document's resolved path is its db value with the rewrite rules   *)
(* applied one after another, in the table's order, each replacing every   *)
(* occurrence of its key in the current string; when no rule key occurs in *)
(* db the path is db, and the rule "urn:cts:greekLit:" -> "/data/greek/"   *)
(* takes "urn:cts:greekLit:tlg0012.tlg001" to                              *)
(* "/data/greek/tlg0012.tlg001".                                           *)
(***************************************************************************)
RECURSIVE SplitOn(_, _)
\* the pieces of h between the occurrences of k, read from the left
SplitOn(h, k) ==
    IF ~Contains(h, k) THEN <<h>>
    ELSE LET i == CHOOSE i \in 1..Len(h) : IsAt(h, k, i) /\ \A j \in 1..(i - 1) : ~IsAt(h, k, j)
         IN  <<SubSeq(h, 1, i - 1)>> \o SplitOn(SubSeq(h, i + Len(k), Len(h)), k)

RECURSIVE JoinWith(_, _)
\* the pieces put together again with v between them
JoinWith(v, parts) ==
    IF Len(parts) = 1 THEN parts[1] ELSE parts[1] \o v \o JoinWith(v, Tail(parts))

RECURSIVE Rewritten(_, _, _)
\* db after the first n rules
Rewritten(db, rules, n) ==
    IF n = 0 THEN db
    ELSE JoinWith(rules[n][2], SplitOn(Rewritten(db, rules, n - 1), rules[n][1]))

DocumentMade == made.cls = "Document" /\ ~made.result.raised

C8_ResolvedPath ==
    DocumentMade =>
        /\ self.db = made.xml.docname
        /\ self.path = Rewritten(self.db, made.table, Len(made.table))
        /\ (\A i \in 1..Len(made.table) : ~Contains(self.db, made.table[i][1]))
              => self.path = self.db
        /\ (self.db = sGreekDb /\ made.table = << <<sGreekRule, sGreekDir>> >>)
              => self.path = sGreekPath

\* two rules, the second of which rewrites what the first one wrote
C8_Witness ==
    /\ DocumentMade
    /\ made.table = << <<sUrn, sX>>, <<sX, sDirD>> >>
    /\ self.db = sUrnA
    /\ self.path = pathA

(***************************************************************************)
(* C9: Citation.testNamespace(level) emits the "namespaces shortcuts with  *)
(* no bindings" warning for scope if and only if scope uses a prefix that  *)
(* has no entry in the namespace table, and likewise for xpath; a scope or *)
(* xpath whose every prefix is bound, to whatever URI, gets no such        *)
(* warning.                                                                *)
(***************************************************************************)
RECURSIVE RunStart(_, _)
\* where the run of [a-zA-Z0-9] characters that ends at i starts
RunStart(s, i) == IF i > 1 /\ s[i - 1] \in AlNum THEN RunStart(s, i - 1) ELSE i

\* the prefixes string s uses: each run of [a-zA-Z0-9] characters with the ":" after it
PrefixesUsed(s) ==
    {SubSeq(s, RunStart(s, i - 1), i) : i \in {i \in 2..Len(s) : s[i] = ":" /\ s[i - 1] \in AlNum}}

UsesUnboundPrefix(s, namespaces) == \E k \in PrefixesUsed(s) : ~DictHas(namespaces, k)

\* the last call returned the warning about unbound shortcuts for this attribute
UnboundWarning(name) ==
    \E i \in 1..Len(ret.result.value) :
        /\ ret.result.value[i].msg = "has namespaces shortcuts with no bindings"
        /\ ret.result.value[i].name = name

C9_UnboundWarningIffUnbound ==
    (made.cls = "Citation" /\ ret.op = "testNamespace") =>
        /\ UnboundWarning("scope") <=> UsesUnboundPrefix(self.scope, self.namespaces)
        /\ UnboundWarning("xpath") <=> UsesUnboundPrefix(self.xpath, self.namespaces)

(***************************************************************************)
(* C10 as stated: for a namespace table in which no prefix is a substring  *)
(* of another prefix, Citation.full_xpath returns the same string for      *)
(* every iteration order of the table.                                     *)
(***************************************************************************)
\* the orders in which a dict of these entries may be iterated
Orders(d) ==
    { [i \in 1..Len(d) |-> d[p[i]]] :
        p \in {q \in [1..Len(d) -> 1..Len(d)] : \A i, j \in 1..Len(d) : q[i] = q[j] => i = j} }

NoPrefixInPrefix(d) ==
    \A i, j \in 1..Len(d) : i # j => ~Contains(d[i][1], d[j][1])

NoPrefixInUri(d) ==
    \A i, j \in 1..Len(d) : ~Contains(d[i][2], d[j][1])

\* a prefix is a name without ":", "{" or "}" followed by ":", and a value a braced URI
WellFormedTable(d) ==
    \A i \in 1..Len(d) :
        /\ Len(d[i][1]) >= 2 /\ d[i][1][Len(d[i][1])] = ":"
        /\ \A m \in 1..(Len(d[i][1]) - 1) : d[i][1][m] \notin {":", "{", "}"}
        /\ Len(d[i][2]) >= 2 /\ d[i][2][1] = "{" /\ d[i][2][Len(d[i][2])] = "}"

FullXpathCalled == made.cls = "Citation" /\ ret.op = "full_xpath"

\* full_xpath returns what the last call returned under every order of the table
SameInEveryOrder ==
    \A d \in Orders(self.namespaces) :
        full_xpath([self EXCEPT !.namespaces = d], ret.args.removeRoot, ret.args.string)
            = ret.result.value

C11_AllTrueNoWarnings ==
    (TestCalled /\ Parsed(ret.args.target) /\ ~ret.result.raised) =>
        /\ (\A i \in 1..Len(status) : status[i]) => warnings = <<>>
        /\ (Depth(self) = 1 /\ LevelMatches(self, ret.args.target))
              => ret.result.value = << <<TRUE>>, <<>> >>

\* a chain of two levels that both match the target
C11_Witness ==
    /\ TestCalled /\ Parsed(ret.args.target)
    /\ Depth(self) = 2
    /\ status = <<TRUE, TRUE>>
    /\ warnings = <<>>

(***************************************************************************)
(* C12: in Citation.test on a parsed target, a level records true when its *)
(* path expression finds at least one match; when it finds none, or when   *)
(* its evaluation fails, the level records false and its warnings are      *)
(* exactly the output of testNamespace(level), the "unable to run xpath"    *)
(* warning of a failed evaluation not being among the returned warnings;   *)
(* the status and warnings of the child follow those of the level.         *)
(***************************************************************************)
RECURSIVE LevelWarnings(_, _, _)
\* the warnings of the levels of chain c, the outermost one being level k:
\* nothing for a level that matches, the namespace diagnostic for one that does not
LevelWarnings(c, target, k) ==
    (IF LevelMatches(c, target) THEN <<>> ELSE testNamespace(c, k))
    \o (IF c.children = <<>> THEN <<>> ELSE LevelWarnings(c.children[1], target, k + 1))

C12_LevelStatusAndWarnings ==
    (TestCalled /\ Parsed(ret.args.target) /\ ~ret.result.raised) =>
        /\ status = [i \in 1..Depth(self) |-> LevelMatches(NthLevel(self, i), ret.args.target)]
        /\ warnings = LevelWarnings(self, ret.args.target, 1)
        /\ \A i \in 1..Len(warnings) : warnings[i].msg # "Unable to run xpath"

\* a chain of two levels: the first cannot be evaluated, the second finds nothing
C12_Witness ==
    /\ TestCalled /\ Parsed(ret.args.target)
    /\ Depth(self) = 2
    /\ LevelUnevaluable(self, ret.args.target)
    /\ ~LevelUnevaluable(NthLevel(self, 2), ret.args.target)
    /\ status = <<FALSE, FALSE>>
    /\ testNamespace(self, 1) # <<>> /\ testNamespace(NthLevel(self, 2), 2) # <<>>

(***************************************************************************)
(* C13: Citation.full_xpath(removeRoot, string) returns the expression     *)
(* (string if given, else scope + xpath) in which every occurrence of      *)
(* @n='?' is reduced to @n, every prefix declared in the namespace table   *)
(* is replaced by its braced URI, every prefix with no entry in the table  *)
(* is left untouched and, when removeRoot is true and the expression is an *)
(* absolute path, the first step is replaced by "." while the later steps  *)
(* are kept in order; the Citation's fields are unchanged by the call.     *)
(***************************************************************************)
RECURSIVE PrefixesBound(_, _, _)
\* the first i characters of s, each prefix (a run of [a-zA-Z0-9] characters
\* with the ":" after it) that the table declares replaced by its URI
PrefixesBound(s, i, namespaces) ==
    IF i = 0 THEN <<>>
    ELSE IF i > 1 /\ s[i] = ":" /\ s[i - 1] \in AlNum
    THEN LET j == RunStart(s, i - 1)
             prefix == SubSeq(s, j, i)
         IN  PrefixesBound(s, j - 1, namespaces)
             \o (IF DictHas(namespaces, prefix) THEN DictGet(namespaces, prefix) ELSE prefix)
    ELSE PrefixesBound(s, i - 1, namespaces) \o <<s[i]>>

\* an absolute path without its first step: what follows the second "/", if any
AfterRoot(s) ==
    IF \E i \in 2..Len(s) : s[i] = "/"
    THEN LET i == CHOOSE i \in 2..Len(s) : s[i] = "/" /\ \A j \in 2..(i - 1) : s[j] # "/"
         IN  SubSeq(s, i, Len(s))
    ELSE <<>>

\* the expression the claim describes
ExpectedXpath(c, removeRoot, string) ==
    LET e0 == IF string # None THEN string ELSE c.scope \o c.xpath
        e1 == JoinWith(<<"@","n">>, SplitOn(e0, sAttrQuery))
        e2 == IF removeRoot THEN <<".">> \o AfterRoot(e1) ELSE e1
    IN  PrefixesBound(e2, Len(e2), c.namespaces)

\* the expression of the last call is an absolute path
AbsoluteExpression ==
    (IF ret.args.string # None THEN ret.args.string ELSE self.scope \o self.xpath)[1] = "/"

C13_FullXpath ==
    (FullXpathCalled /\ AbsoluteExpression) =>
        /\ ret.result = Return(ExpectedXpath(self, ret.args.removeRoot, ret.args.string))
        /\ self = Citation(made.xml, made.table, made.strict)

(***************************************************************************)
(* C14: in Citation.test on a target that parses, every level of the chain *)
(* is evaluated against the whole document from its root, independently of *)
(* the other levels: the status entry of level k is the one the level      *)
(* gets when tested alone, a child level is evaluated (and can record      *)
(* true) when its parent recorded false, and a child's failure does not    *)
(* change the status recorded for the levels outside it.                   *)
(***************************************************************************)
\* level c of a chain as a Citation of its own, without its child
Alone(c) == [c EXCEPT !.children = <<>>]

RECURSIVE Outer(_, _)
\* the k outermost levels of chain c
Outer(c, k) == IF k = 1 THEN Alone(c) ELSE [c EXCEPT !.children = <<Outer(c.children[1], k - 1)>>]

C14_LevelsIndependent ==
    (TestCalled /\ Parsed(ret.args.target) /\ ~ret.result.raised) =>
        /\ Len(status) = Depth(self)
        /\ \A k \in 1..Depth(self) :
              /\ <<status[k]>> = test(Alone(NthLevel(self, k)), ret.args.target, 1).value[1]
              /\ SubSeq(status, 1, k) = test(Outer(self, k), ret.args.target, 1).value[1]

\* a chain of two levels: the first finds nothing, the second matches
C14_Witness ==
    /\ TestCalled /\ Parsed(ret.args.target)
    /\ Depth(self) = 2
    /\ status = <<FALSE, TRUE>>

====
